---- MODULE Spec2Model ----
(***************************************************************************)
(* Sparse Merkle binary trie: the eager engine (new_bintrie.py) and the    *)
(* compact engine (new_bintrie_optimized.py), their proofs and the proof   *)
(* compressor, as one state machine.                                       *)
(*                                                                         *)
(* Scaling.  The code works on trees of 256 levels, 32-byte keys and       *)
(* 32-byte values.  The model keeps every shift, mask and index of the     *)
(* code and replaces 256 by Depth: a key is a sequence of Depth key        *)
(* digits, every digit one bit wide (the code: 32 digits of 8 bits).       *)
(*                                                                         *)
(* Byte strings.  A 32-byte string (value, key, digest) is a "unit": a     *)
(* flat sequence of integers.  A store entry is a sequence of units:       *)
(*   64 bytes  = << left, right >>            (Len = 2)                    *)
(*   65 bytes  = << Flag, pathkey, value >>   (Len = 3, Flag is 1 byte)    *)
(* so child[:32] is child[1], child[32:] is child[2], child[1:33] is       *)
(* child[2] and child[33:] is child[3] of a 65-byte entry.                 *)
(* An operation returns a record whose err field is "ok", or the kind of   *)
(* the exception it raised: "missing" (TypeError on a digest absent from   *)
(* the store), "slot" (Cannot fit two values into one slot!) or "index"    *)
(* (IndexError).                                                           *)
(* The reads and writes counters of the compact engine's EphemDB count     *)
(* calls and decide nothing; the stores are modelled by their kv mapping.  *)
(* sha3 is collision free: it brackets the units it is given, so that      *)
(* distinct inputs have distinct digests.  A digest is a unit like any     *)
(* other and may be written as a value.                                    *)
(***************************************************************************)
EXTENDS Integers, Sequences, FiniteSets, TLC

\* number of levels of the tree (256 in the code)
Depth == 2
\* longest sequence of updates applied to the trees
MaxUpdates == 3
\* longest sequence of updates the roots of the engines are compared over
MaxLongUpdates == 4
\* longest keys/values list handed to multi_update
MaxBatch == 2
\* most updates made through multi_update and on foreign roots
MaxBatchUpdates == 2

RECURSIVE Pow2(_)
Pow2(e) == IF e = 0 THEN 1 ELSE 2 * Pow2(e - 1)

\* 2**256 of the code
TT == Pow2(Depth)
tt256m1 == TT - 1

\* (path >> 255) & 1
TopBit(path) == (path \div Pow2(Depth - 1)) % 2

-----------------------------------------------------------------------------
(* units *)

ZeroValue == <<0>>
VA == <<1>>
Flag == <<1>>
\* db.get of an absent digest (None)
None == <<>>

RECURSIVE Join(_)
Join(units) ==
    IF Len(units) = 0 THEN <<>>
    ELSE IF Len(units) = 1 THEN units[1]
    ELSE units[1] \o <<8>> \o Join(Tail(units))

sha3(bytes) == <<7>> \o Join(bytes) \o <<9>>

-----------------------------------------------------------------------------
(* EphemDB *)

EmptyDB == [x \in {} |-> None]

db_get(db, k) == IF k \in DOMAIN db THEN db[k] ELSE None

db_put(db, k, v) == [x \in (DOMAIN db) \cup {k} |-> IF x = k THEN v ELSE db[x]]

-----------------------------------------------------------------------------
(* zero-hash table and path codec *)

RECURSIVE ZeroHashAt(_)
ZeroHashAt(d) ==
    IF d = Depth THEN ZeroValue
    ELSE sha3(<<ZeroHashAt(d + 1), ZeroHashAt(d + 1)>>)

zerohashes == [d \in 0..Depth |-> ZeroHashAt(d)]

RECURSIVE KeyFold(_, _)
KeyFold(k, o) == IF Len(k) = 0 THEN o ELSE KeyFold(Tail(k), o * 2 + Head(k))

key_to_path(k) == KeyFold(k, 0)

path_to_key(p) ==
    [i \in 1..Depth |-> ((p % TT) \div Pow2(Depth - i)) % 2]

Keys == [1..Depth -> {0, 1}]

-----------------------------------------------------------------------------
(* eager engine: new_bintrie.py *)

RECURSIVE NewTreeLoop(_, _, _)
NewTreeLoop(db, h, i) ==
    IF i = Depth THEN [db |-> db, root |-> h]
    ELSE LET newh == sha3(<<h, h>>)
         IN  NewTreeLoop(db_put(db, newh, <<h, h>>), newh, i + 1)

eager_new_tree(db) == NewTreeLoop(db, ZeroValue, 0)

\* db.get(v)[:32] and db.get(v)[32:] raise TypeError on None
RECURSIVE EagerGetLoop(_, _, _, _)
EagerGetLoop(db, v, path, i) ==
    IF i = Depth THEN [err |-> "ok", val |-> v]
    ELSE IF db_get(db, v) = None THEN [err |-> "missing", val |-> None]
    ELSE IF TopBit(path) = 1
         THEN EagerGetLoop(db, db_get(db, v)[2], path * 2, i + 1)
         ELSE EagerGetLoop(db, db_get(db, v)[1], path * 2, i + 1)

eager_get(db, root, key) == EagerGetLoop(db, root, key_to_path(key), 0)

\* first loop of update and the loop of make_merkle_proof
RECURSIVE SideNodes(_, _, _, _, _)
SideNodes(db, v, path, i, sidenodes) ==
    IF i = Depth THEN [err |-> "ok", sidenodes |-> sidenodes]
    ELSE IF db_get(db, v) = None THEN [err |-> "missing", sidenodes |-> sidenodes]
    ELSE IF TopBit(path) = 1
         THEN SideNodes(db, db_get(db, v)[2], path * 2, i + 1,
                        Append(sidenodes, db_get(db, v)[1]))
         ELSE SideNodes(db, db_get(db, v)[1], path * 2, i + 1,
                        Append(sidenodes, db_get(db, v)[2]))

\* second loop of update
RECURSIVE EagerWriteLoop(_, _, _, _, _)
EagerWriteLoop(db, v, path2, i, sidenodes) ==
    IF i = Depth THEN [err |-> "ok", db |-> db, root |-> v]
    ELSE LET last == sidenodes[Len(sidenodes)]
             node == IF path2 % 2 = 1 THEN <<last, v>> ELSE <<v, last>>
         IN  EagerWriteLoop(db_put(db, sha3(node), node), sha3(node),
                            path2 \div 2, i + 1,
                            SubSeq(sidenodes, 1, Len(sidenodes) - 1))

eager_update(db, root, key, value) ==
    LET s == SideNodes(db, root, key_to_path(key), 0, <<>>)
    IN  IF s.err # "ok" THEN [err |-> s.err, db |-> db, root |-> root]
        ELSE EagerWriteLoop(db, value, key_to_path(key), 0, s.sidenodes)

make_merkle_proof(db, root, key) ==
    SideNodes(db, root, key_to_path(key), 0, <<>>)

\* verify_proof reading the proof from its front
RECURSIVE VerifyLoopFromFront(_, _, _, _)
VerifyLoopFromFront(proof, v, path, i) ==
    IF i = Depth THEN v
    ELSE LET p == proof[i + 1]
             newv == IF path % 2 = 1 THEN sha3(<<p, v>>) ELSE sha3(<<v, p>>)
         IN  VerifyLoopFromFront(proof, newv, path \div 2, i + 1)

RECURSIVE VerifyLoop(_, _, _, _)
VerifyLoop(proof, v, path, i) ==
    IF i = Depth THEN v
    ELSE LET p == proof[Len(proof) - i]
             newv == IF path % 2 = 1 THEN sha3(<<p, v>>) ELSE sha3(<<v, p>>)
         IN  VerifyLoop(proof, newv, path \div 2, i + 1)

verify_proof(proof, root, key, value) ==
    root = VerifyLoop(proof, value, key_to_path(key), 0)

-----------------------------------------------------------------------------
(* compact engine: new_bintrie_optimized.py *)

compact_new_tree(db) == [db |-> db, root |-> zerohashes[0]]

RECURSIVE CompactGetLoop(_, _, _, _)
CompactGetLoop(db, v, path, i) ==
    IF i = Depth THEN [err |-> "ok", val |-> v]
    ELSE IF v = zerohashes[i] THEN [err |-> "ok", val |-> ZeroValue]
    ELSE LET child == db_get(db, v)
         IN  IF child = None THEN [err |-> "missing", val |-> None]
             ELSE IF Len(child) = 3
                  THEN IF (path % TT) = key_to_path(child[2])
                       THEN [err |-> "ok", val |-> child[3]]
                       ELSE [err |-> "ok", val |-> ZeroValue]
             ELSE IF TopBit(path) = 1
                  THEN CompactGetLoop(db, child[2], path * 2, i + 1)
                  ELSE CompactGetLoop(db, child[1], path * 2, i + 1)

compact_get(db, root, key) == CompactGetLoop(db, root, key_to_path(key), 0)

RECURSIVE make_single_key_hash(_, _, _)
make_single_key_hash(path, depth, value) ==
    IF depth = Depth THEN value
    ELSE IF TopBit(path) = 1
         THEN sha3(<<zerohashes[depth + 1],
                     make_single_key_hash(path * 2, depth + 1, value)>>)
         ELSE sha3(<<make_single_key_hash(path * 2, depth + 1, value),
                     zerohashes[depth + 1]>>)

\* the single-leaf entries written with the paths before the shift
DoubleSplitUnshifted(db, pl, pr, depth, vl, vr) ==
    LET L == make_single_key_hash(pl * 2, depth + 1, vl)
        R == make_single_key_hash(pr * 2, depth + 1, vr)
        db1 == db_put(db, L, <<Flag, path_to_key(pl), vl>>)
        db2 == db_put(db1, R, <<Flag, path_to_key(pr), vr>>)
        child == <<L, R>>
    IN  [err |-> "ok", db |-> db_put(db2, sha3(child), child),
         root |-> sha3(child)]

\* the two single-leaf entries and the internal node of the branch where
\* the paths part: pl/vl go left, pr/vr go right
DoubleSplit(db, pl, pr, depth, vl, vr) ==
    LET L == make_single_key_hash(pl * 2, depth + 1, vl)
        R == make_single_key_hash(pr * 2, depth + 1, vr)
        db1 == db_put(db, L, <<Flag, path_to_key(pl * 2), vl>>)
        db2 == db_put(db1, R, <<Flag, path_to_key(pr * 2), vr>>)
        child == <<L, R>>
    IN  [err |-> "ok", db |-> db_put(db2, sha3(child), child),
         root |-> sha3(child)]

\* make_double_key_hash writing the leaf it holds before it raises
RECURSIVE make_double_key_hash_early(_, _, _, _, _, _)
make_double_key_hash_early(db, path1, path2, depth, value1, value2) ==
    IF depth = Depth
    THEN [err |-> "slot",
          db |-> db_put(db, sha3(<<value1, value2>>), <<value1, value2>>),
          root |-> None]
    ELSE IF TopBit(path1) = 1
    THEN IF TopBit(path2) = 1
         THEN LET r == make_double_key_hash_early(db, path1 * 2, path2 * 2,
                                                  depth + 1, value1, value2)
                  child == <<zerohashes[depth + 1], r.root>>
              IN  IF r.err # "ok" THEN r
                  ELSE [err |-> "ok", db |-> db_put(r.db, sha3(child), child),
                        root |-> sha3(child)]
         ELSE DoubleSplit(db, path2, path1, depth, value2, value1)
    ELSE IF TopBit(path2) = 1
         THEN DoubleSplit(db, path1, path2, depth, value1, value2)
         ELSE LET r == make_double_key_hash_early(db, path1 * 2, path2 * 2,
                                                  depth + 1, value1, value2)
                  child == <<r.root, zerohashes[depth + 1]>>
              IN  IF r.err # "ok" THEN r
                  ELSE [err |-> "ok", db |-> db_put(r.db, sha3(child), child),
                        root |-> sha3(child)]

RECURSIVE make_double_key_hash(_, _, _, _, _, _)
make_double_key_hash(db, path1, path2, depth, value1, value2) ==
    IF depth = Depth THEN [err |-> "slot", db |-> db, root |-> None]
    ELSE IF TopBit(path1) = 1
    THEN IF TopBit(path2) = 1
         THEN LET r == make_double_key_hash(db, path1 * 2, path2 * 2,
                                            depth + 1, value1, value2)
                  child == <<zerohashes[depth + 1], r.root>>
              IN  IF r.err # "ok" THEN r
                  ELSE [err |-> "ok", db |-> db_put(r.db, sha3(child), child),
                        root |-> sha3(child)]
         ELSE DoubleSplit(db, path2, path1, depth, value2, value1)
    ELSE IF TopBit(path2) = 1
         THEN DoubleSplit(db, path1, path2, depth, value1, value2)
         ELSE LET r == make_double_key_hash(db, path1 * 2, path2 * 2,
                                            depth + 1, value1, value2)
                  child == <<r.root, zerohashes[depth + 1]>>
              IN  IF r.err # "ok" THEN r
                  ELSE [err |-> "ok", db |-> db_put(r.db, sha3(child), child),
                        root |-> sha3(child)]

RECURSIVE update_rec(_, _, _, _, _)
update_rec(db, root, path, depth, value) ==
    IF depth = Depth THEN [err |-> "ok", db |-> db, root |-> value]
    ELSE IF root = zerohashes[depth]
    THEN LET k == make_single_key_hash(path, depth, value)
         IN  [err |-> "ok",
              db |-> db_put(db, k, <<Flag, path_to_key(path), value>>),
              root |-> k]
    ELSE LET child == db_get(db, root)
         IN  IF child = None THEN [err |-> "missing", db |-> db, root |-> None]
             ELSE IF Len(child) = 3
             THEN make_double_key_hash(db, path, key_to_path(child[2]), depth,
                                       value, child[3])
             ELSE IF TopBit(path) = 1
             THEN LET r == update_rec(db, child[2], path * 2, depth + 1, value)
                      new_child == <<child[1], r.root>>
                  IN  IF r.err # "ok" THEN r
                      ELSE [err |-> "ok",
                            db |-> db_put(r.db, sha3(new_child), new_child),
                            root |-> sha3(new_child)]
             ELSE LET r == update_rec(db, child[1], path * 2, depth + 1, value)
                      new_child == <<r.root, child[2]>>
                  IN  IF r.err # "ok" THEN r
                      ELSE [err |-> "ok",
                            db |-> db_put(r.db, sha3(new_child), new_child),
                            root |-> sha3(new_child)]

compact_update(db, root, key, value) ==
    update_rec(db, root, key_to_path(key), 0, value)

\* keys and values are zipped; the fold stops at the first update that raises.
\* done counts the completed updates, pre is the store the last update began on
RECURSIVE MultiLoop(_, _, _, _, _)
MultiLoop(db, root, kvs, done, pre) ==
    IF Len(kvs) = 0
    THEN [err |-> "ok", db |-> db, root |-> root, done |-> done, pre |-> pre]
    ELSE LET r == compact_update(db, root, kvs[1][1], kvs[1][2])
         IN  IF r.err # "ok"
             THEN [err |-> r.err, db |-> r.db, root |-> root, done |-> done,
                   pre |-> db]
             ELSE MultiLoop(r.db, r.root, Tail(kvs), done + 1, db)

multi_update(db, root, kvs) == MultiLoop(db, root, kvs, 0, db)

-----------------------------------------------------------------------------
(* proof compressor: new_bintrie.py *)

\* bytes of the bitmap: bytearray(32) holds one bit per level
BitmapLen == (Depth + 7) \div 8

\* b ^ (1 << j) and b & (1 << j) of one byte
XorBit(b, j) == IF (b \div Pow2(j)) % 2 = 1 THEN b - Pow2(j) ELSE b + Pow2(j)
AndBit(b, j) == ((b \div Pow2(j)) % 2) * Pow2(j)

\* compress_proof comparing entry i with zerohashes[i]
RECURSIVE CompressLoopOffByOne(_, _, _, _)
CompressLoopOffByOne(proof, i, bits, oproof) ==
    IF i = Len(proof) THEN <<bits>> \o oproof
    ELSE IF proof[i + 1] = zerohashes[i]
         THEN CompressLoopOffByOne(proof, i + 1,
                  [bits EXCEPT ![(i \div 8) + 1] = XorBit(@, i % 8)], oproof)
         ELSE CompressLoopOffByOne(proof, i + 1, bits,
                                   Append(oproof, proof[i + 1]))

\* i counts from 0 as enumerate does; the result is bytes(bits) + oproof
RECURSIVE CompressLoop(_, _, _, _)
CompressLoop(proof, i, bits, oproof) ==
    IF i = Len(proof) THEN <<bits>> \o oproof
    ELSE IF proof[i + 1] = zerohashes[i + 1]
         THEN CompressLoop(proof, i + 1,
                  [bits EXCEPT ![(i \div 8) + 1] = XorBit(@, i % 8)], oproof)
         ELSE CompressLoop(proof, i + 1, bits, Append(oproof, proof[i + 1]))

compress_proof(proof) ==
    CompressLoop(proof, 0, [j \in 1..BitmapLen |-> 0], <<>>)

\* oproof[pos: pos + 32]: a slice past the end of the buffer is empty
Slice(oproof, pos) == IF pos <= Len(oproof) THEN oproof[pos] ELSE <<>>

\* bits[i // 8] raises IndexError when the bitmap is shorter than 32 bytes
RECURSIVE DecompressLoop(_, _, _, _, _)
DecompressLoop(oproof, bits, i, pos, proof) ==
    IF i = Depth THEN [err |-> "ok", proof |-> proof]
    ELSE IF (i \div 8) + 1 > Len(bits) THEN [err |-> "index", proof |-> <<>>]
    ELSE IF AndBit(bits[(i \div 8) + 1], i % 8) # 0
         THEN DecompressLoop(oproof, bits, i + 1, pos,
                             Append(proof, zerohashes[i + 1]))
         ELSE DecompressLoop(oproof, bits, i + 1, pos + 1,
                             Append(proof, Slice(oproof, pos)))

decompress_proof(oproof) ==
    DecompressLoop(oproof, Slice(oproof, 1), 0, 2, <<>>)

-----------------------------------------------------------------------------
(* state *)

VARIABLES
    edb,      \* store of the eager engine
    eroot,    \* root the eager engine returned last
    cdb,      \* store of the compact engine
    croot,    \* root the compact engine returned last
    ekeys,    \* keys written by the updates that led to eroot
    ckeys,    \* keys written by the updates that led to croot
    sync,     \* both engines completed the same sequence of updates
    n,        \* update calls made so far
    last,     \* the last call: its arguments and how it ended
    proof,    \* proof handed to the compressor
    oproof,   \* compressed proof
    dropped,  \* digests cut from the end of oproof
    dec,      \* result of decompress_proof
    stage     \* position of the compressor's caller

vars == <<edb, eroot, cdb, croot, ekeys, ckeys, sync, n, last,
          proof, oproof, dropped, dec, stage>>

engine == <<edb, eroot, cdb, croot, ekeys, ckeys, sync, n, last>>
compressor == <<proof, oproof, dropped, dec, stage>>

\* a digest a caller may write as a value: the subtree with VA at its right leaf
DV == sha3(<<ZeroValue, VA>>)

Values == {ZeroValue, VA, DV}

\* a root that no update returned
StaleRoot == sha3(<<VA, VA>>)

\* digests a proof is drawn from
Pool == {zerohashes[d] : d \in 1..Depth} \cup {VA, DV}

NoCall == [op |-> "new_tree", key |-> <<>>, value |-> <<>>,
           eerr |-> "ok", cerr |-> "ok", done |-> 0,
           epre |-> EmptyDB, cpre |-> EmptyDB]

NoDec == [err |-> "none", proof |-> <<>>]

InitEngines ==
    /\ edb = eager_new_tree(EmptyDB).db
    /\ eroot = eager_new_tree(EmptyDB).root
    /\ cdb = compact_new_tree(EmptyDB).db
    /\ croot = compact_new_tree(EmptyDB).root
    /\ ekeys = {}
    /\ ckeys = {}
    /\ sync = TRUE
    /\ n = 0
    /\ last = NoCall

Init ==
    /\ InitEngines
    /\ proof = <<>>
    /\ oproof = <<>>
    /\ dropped = 0
    /\ dec = NoDec
    /\ stage = "idle"

-----------------------------------------------------------------------------
(* actions *)

\* update(db, root, key, value) of both engines on the roots they returned last
UpdateBoth(k, v) ==
    /\ LET re == eager_update(edb, eroot, k, v)
           rc == compact_update(cdb, croot, k, v)
       IN  /\ edb' = re.db
           /\ eroot' = IF re.err = "ok" THEN re.root ELSE eroot
           /\ ekeys' = IF re.err = "ok" THEN ekeys \cup {k} ELSE ekeys
           /\ cdb' = rc.db
           /\ croot' = IF rc.err = "ok" THEN rc.root ELSE croot
           /\ ckeys' = IF rc.err = "ok" THEN ckeys \cup {k} ELSE ckeys
           /\ sync' = (sync /\ re.err = "ok" /\ rc.err = "ok")
           /\ last' = [op |-> "update", key |-> k, value |-> v,
                       eerr |-> re.err, cerr |-> rc.err,
                       done |-> IF rc.err = "ok" THEN 1 ELSE 0,
                       epre |-> edb, cpre |-> cdb]
    /\ n' = n + 1
    /\ UNCHANGED compressor

Update(k, v) == n < MaxUpdates /\ UpdateBoth(k, v)

\* the same call in the longer sequences
UpdateLong(k, v) == n < MaxLongUpdates /\ UpdateBoth(k, v)

\* update of both engines on a root that is not theirs; the caller keeps
\* the roots it had
ForeignUpdate(k, v) ==
    /\ n < MaxBatchUpdates
    /\ LET re == eager_update(edb, StaleRoot, k, v)
           rc == compact_update(cdb, StaleRoot, k, v)
       IN  /\ edb' = re.db
           /\ cdb' = rc.db
           /\ last' = [op |-> "foreign", key |-> k, value |-> v,
                       eerr |-> re.err, cerr |-> rc.err,
                       done |-> IF rc.err = "ok" THEN 1 ELSE 0,
                       epre |-> edb, cpre |-> cdb]
    /\ n' = n + 1
    /\ UNCHANGED <<eroot, croot, ekeys, ckeys, sync>>
    /\ UNCHANGED compressor

\* the eager engine has no multi_update: its caller folds update itself
RECURSIVE EagerFold(_, _, _, _)
EagerFold(db, root, kvs, pre) ==
    IF Len(kvs) = 0 THEN [err |-> "ok", db |-> db, root |-> root, pre |-> pre]
    ELSE LET r == eager_update(db, root, kvs[1][1], kvs[1][2])
         IN  IF r.err # "ok"
             THEN [err |-> r.err, db |-> r.db, root |-> root, pre |-> db]
             ELSE EagerFold(r.db, r.root, Tail(kvs), db)

Batches == UNION {[1..l -> Keys \X Values] : l \in 1..MaxBatch}

\* multi_update(db, root, keys, values) on the compact engine
MultiUpdate(kvs) ==
    /\ n + Len(kvs) <= MaxBatchUpdates
    /\ LET re == EagerFold(edb, eroot, kvs, edb)
           rc == multi_update(cdb, croot, kvs)
           tried == IF rc.err = "ok" THEN Len(kvs) ELSE rc.done + 1
       IN  /\ edb' = re.db
           /\ eroot' = re.root
           /\ ekeys' = ekeys \cup {kvs[i][1] : i \in 1..Len(kvs)}
           /\ cdb' = rc.db
           /\ croot' = rc.root
           /\ ckeys' = ckeys \cup {kvs[i][1] : i \in 1..rc.done}
           /\ sync' = (sync /\ re.err = "ok" /\ rc.err = "ok")
           /\ last' = [op |-> "multi", key |-> kvs[tried][1],
                       value |-> kvs[tried][2],
                       eerr |-> re.err, cerr |-> rc.err, done |-> rc.done,
                       epre |-> re.pre, cpre |-> rc.pre]
    /\ n' = n + Len(kvs)
    /\ UNCHANGED compressor

Compress ==
    /\ stage = "proof"
    /\ oproof' = compress_proof(proof)
    /\ stage' = "compressed"
    /\ UNCHANGED <<proof, dropped, dec>>
    /\ UNCHANGED engine

\* the caller hands over a buffer that lost its last j units
Truncate(j) ==
    /\ stage = "compressed"
    /\ j \in 1..Len(oproof)
    /\ oproof' = SubSeq(oproof, 1, Len(oproof) - j)
    /\ dropped' = j
    /\ stage' = "truncated"
    /\ UNCHANGED <<proof, dec>>
    /\ UNCHANGED engine

Decompress ==
    /\ stage \in {"compressed", "truncated"}
    /\ dec' = decompress_proof(oproof)
    /\ stage' = "decompressed"
    /\ UNCHANGED <<proof, oproof, dropped>>
    /\ UNCHANGED engine

Next == \E k \in Keys, v \in Values : Update(k, v)

Spec == Init /\ [][Next]_vars

NextLong == \E k \in Keys, v \in Values : UpdateLong(k, v)

SpecLong == Init /\ [][NextLong]_vars

NextMulti ==
    \/ \E kvs \in Batches : MultiUpdate(kvs)
    \/ \E k \in Keys, v \in Values : ForeignUpdate(k, v)

SpecMulti == Init /\ [][NextMulti]_vars

InitProof ==
    /\ InitEngines
    /\ proof \in [1..Depth -> Pool]
    /\ oproof = <<>>
    /\ dropped = 0
    /\ dec = NoDec
    /\ stage = "proof"

NextProof ==
    \/ Compress
    \/ \E j \in 1..(Depth + 1) : Truncate(j)
    \/ Decompress

SpecProof == InitProof /\ [][NextProof]_vars

-----------------------------------------------------------------------------
(* properties *)

Read(v) == [err |-> "ok", val |-> v]

\* C1: after update(db, r0, k, v) on a root reached by updates, the update
\* has returned a root r1 and get(db, r1, k) = v, in the eager and in the
\* compact engine (also when k is the sole leaf of a single-leaf node).
C1_GetAfterUpdate ==
    last.op = "update" =>
        /\ last.eerr = "ok"
        /\ eager_get(edb, eroot, last.key) = Read(last.value)
        /\ last.cerr = "ok"
        /\ compact_get(cdb, croot, last.key) = Read(last.value)

\* C2: an update of k1 that returns a root leaves the value read for every
\* other key k2 as it was under the root the update started from.
C2_UntouchedKeys ==
    [][\A k2 \in Keys :
         (last'.op = "update" /\ k2 # last'.key) =>
            /\ last'.eerr = "ok" =>
                 eager_get(edb', eroot', k2) = eager_get(edb, eroot, k2)
            /\ last'.cerr = "ok" =>
                 compact_get(cdb', croot', k2) = compact_get(cdb, croot, k2)
      ]_vars

\* C3: under every root reached from new_tree by updates, a key that none
\* of these updates wrote reads as the zero value, in both engines.
C3_ZeroDefault ==
    /\ \A k \in Keys \ ekeys : eager_get(edb, eroot, k) = Read(ZeroValue)
    /\ \A k \in Keys \ ckeys : compact_get(cdb, croot, k) = Read(ZeroValue)

\* C4: in the eager engine, the proof that make_merkle_proof builds for the
\* key written last verifies against the root that update returned, with
\* the value written.
C4_ProofSoundness ==
    (last.op = "update" /\ last.eerr = "ok") =>
        LET p == make_merkle_proof(edb, eroot, last.key)
        IN  /\ p.err = "ok"
            /\ Len(p.sidenodes) = Depth
            /\ verify_proof(p.sidenodes, eroot, last.key, last.value)

\* a proof with a sibling that is not a zero hash, for a non-zero value
C4_Witness ==
    /\ last.op = "update"
    /\ last.eerr = "ok"
    /\ last.value # ZeroValue
    /\ \E i \in 1..Depth :
          make_merkle_proof(edb, eroot, last.key).sidenodes[i] # zerohashes[i]
    /\ verify_proof(make_merkle_proof(edb, eroot, last.key).sidenodes,
                    eroot, last.key, last.value)

\* C5: compress_proof sets bit i and drops entry i exactly when the entry is
\* zerohashes[i+1], and decompress_proof of the compressed proof is the proof.
C5_RoundTrip ==
    /\ stage = "compressed" =>
          /\ \A i \in 0..(Depth - 1) :
                (AndBit(oproof[1][(i \div 8) + 1], i % 8) # 0)
                   <=> (proof[i + 1] = zerohashes[i + 1])
          /\ Len(oproof) =
                1 + Cardinality({i \in 1..Depth : proof[i] # zerohashes[i]})
    /\ (stage = "decompressed" /\ dropped = 0) =>
          dec = [err |-> "ok", proof |-> proof]

\* a proof with a dropped and a kept entry went through both directions
C5_Witness ==
    /\ stage = "decompressed"
    /\ dropped = 0
    /\ \E i \in 1..Depth : proof[i] = zerohashes[i]
    /\ \E i \in 1..Depth : proof[i] # zerohashes[i]
    /\ dec.proof = proof

\* C6: an update leaves every entry of the store in place with the bytes it
\* had, in both engines.
C6_OnlyAdds ==
    [][/\ \A d \in DOMAIN edb : d \in DOMAIN edb' /\ edb'[d] = edb[d]
       /\ \A d \in DOMAIN cdb : d \in DOMAIN cdb' /\ cdb'[d] = cdb[d]
      ]_vars

ClearBits(bits) ==
    Cardinality({i \in 0..(Depth - 1) :
                    AndBit(bits[(i \div 8) + 1], i % 8) = 0})

\* C7: decompress_proof fails when the buffer holds fewer digests after the
\* bitmap than the bitmap has clear bits.
C7_RejectsShort ==
    (/\ stage = "decompressed"
     /\ Len(oproof) >= 1
     /\ Len(oproof) - 1 < ClearBits(oproof[1]))
        => dec.err # "ok"

\* C8: an update that fails leaves the store as it was when that update
\* began; a multi_update that fails on a pair leaves the store of the
\* updates it completed.
C8_FailedWritesNothing ==
    /\ last.cerr # "ok" => cdb = last.cpre
    /\ last.eerr # "ok" => edb = last.epre

\* multi_update completed one update and failed on the next one
C8_Witness ==
    /\ last.op = "multi"
    /\ last.cerr = "slot"
    /\ last.done = 1
    /\ cdb = last.cpre
    /\ cdb # EmptyDB

\* C9: every entry of either store is keyed by the hash of its bytes,
\* also the 65-byte single-leaf entries of the compact engine.
C9_ContentAddressed ==
    /\ \A d \in DOMAIN edb : d = sha3(edb[d])
    /\ \A d \in DOMAIN cdb : d = sha3(cdb[d])

\* C9 as amended: 64-byte entries are keyed by the hash of their bytes; a
\* 65-byte single-leaf entry is keyed by the root of the subtree it stands
\* for, make_single_key_hash of its path and value at the depth it sits at.
C9_KeyedByRoot ==
    /\ \A d \in DOMAIN edb : Len(edb[d]) = 2 /\ d = sha3(edb[d])
    /\ \A d \in DOMAIN cdb :
          \/ Len(cdb[d]) = 2 /\ d = sha3(cdb[d])
          \/ /\ Len(cdb[d]) = 3
             /\ cdb[d][1] = Flag
             /\ \E depth \in 0..Depth :
                   d = make_single_key_hash(key_to_path(cdb[d][2]), depth,
                                            cdb[d][3])

\* the compact store holds an internal node and a single-leaf entry that is
\* not keyed by the hash of its bytes
C9_Witness ==
    /\ \E d \in DOMAIN cdb : Len(cdb[d]) = 2
    /\ \E d \in DOMAIN cdb : Len(cdb[d]) = 3 /\ d # sha3(cdb[d])
    /\ Cardinality(DOMAIN edb) > Depth

\* C10: while the compact engine has completed every update of the
\* sequence, its root is the root of the eager engine.
C10_RootEquivalence == sync => eroot = croot

====
